---- MODULE Spec2Model ----
(***************************************************************************)
(* A model of xcsv.plot.Plot (src/xcsv/plot/__init__.py): the extent of a  *)
(* list of datasets, and plot_datasets() with the parameters it stores on  *)
(* the Plot object and the calls it makes on the matplotlib figure/axes.   *)
(* A call of plot_datasets() is one step. Not modelled: plt.show(), the    *)
(* background image, savefig(), and header items that are lists; the data  *)
(* cells hold numbers, never nan; axs is a Python list of axes and axs_idx *)
(* a position in the list the call draws on.                               *)
(***************************************************************************)
EXTENDS Integers, Sequences, FiniteSets, TLC

VARIABLES
    fig,            \* self.fig: <<>> is None, <<f>> is figure f
    axs,            \* self.axs: the list of axes
    callerAxs,      \* the list of axes that the caller of plot_datasets() holds
    aliased,        \* self.axs is that very list object
    datasets,       \* self.datasets
    xcol, ycol, xlabel, ylabel, title, caption, label_key,   \* self.<field>
    defaultOpts,    \* the dict object that is the default of plot_datasets(opts={})
    nfigs,          \* how many figures plt.figure() has created
    xinv, yinv,     \* orientation of each axes' x- and y-axis: TRUE is inverted
    call,           \* the arguments of the last plot_datasets() call
    before,         \* what that call started from: whether the Plot object held
                    \* other parameters than the call has left, whether it
                    \* held a figure and axes, the figures created, the axes
                    \* it draws on and their orientation when the drawing starts
    err,            \* how that call ended: "ok", "IndexError", "KeyError"
    log,            \* the calls that call made on the figure and the axes
    extentArgs,     \* the arguments of get_plot_data_extent()
    extent          \* its result, <<>> until it has been called

plotVars == <<fig, axs, callerAxs, aliased, datasets, xcol, ycol, xlabel, ylabel, title, caption,
              label_key, defaultOpts, nfigs, xinv, yinv, call, before, err, log>>
extentVars == <<extentArgs, extent>>
vars == <<plotVars, extentVars>>

----------------------------------------------------------------------------
(* Bounds of the model *)

MaxDatasets == 2    \* datasets in one list
MaxRows == 2        \* rows of one data table
MaxCols == 2        \* columns of one data table
MaxFigures == 3     \* figures that plt.figure() creates

(* Python values *)

\* Python's None where a str is expected; no label or text is spelled so.
None == "None"
\* float('nan'): an integer that no data value and no row count can equal.
NaN == 0 - 99

\* bool(s) of a str or None: None and '' are falsy
Truthy(s) == s # None /\ s # ""

\* a < b and a > b of Python floats: every comparison with nan is False
PyLt(a, b) == a # NaN /\ b # NaN /\ a < b
PyGt(a, b) == a # NaN /\ b # NaN /\ a > b
PyLe(a, b) == a # NaN /\ b # NaN /\ a <= b

RECURSIVE PyMinFrom(_, _, _)
PyMinFrom(s, i, cur) ==
    IF i > Len(s) THEN cur
    ELSE PyMinFrom(s, i + 1, IF PyLt(s[i], cur) THEN s[i] ELSE cur)

RECURSIVE PyMaxFrom(_, _, _)
PyMaxFrom(s, i, cur) ==
    IF i > Len(s) THEN cur
    ELSE PyMaxFrom(s, i + 1, IF PyGt(s[i], cur) THEN s[i] ELSE cur)

\* the builtin min(list) of a non-empty list: the first item, replaced by each
\* later item that compares less than it
PyMin(s) == PyMinFrom(s, 2, s[1])

\* the builtin max(list) of a non-empty list
PyMax(s) == PyMaxFrom(s, 2, s[1])

----------------------------------------------------------------------------
(* Datasets: an XCSV object is a data table (column labels, rows) and a     *)
(* header of metadata items.                                               *)

Labels == <<"time", "depth", "temperature", "salinity">>
Values == {1, 2}

\* dataset.get_metadata_item_value(key) of the xcsv library: the header item,
\* or '' when the header has no such key
get_metadata_item_value(ds, key) ==
    IF key \in DOMAIN ds.header THEN ds.header[key] ELSE ""

\* len(dataset.data.columns)
ColumnCount(ds) == Len(ds.cols)

\* a variant that takes no negative position
IlocOkNoNegative(ds, idx) == 0 <= idx /\ idx < ColumnCount(ds)
\* dataset.data.iloc[:, idx] does not raise IndexError: pandas takes a position
\* in [-n, n), a negative one counting from the last column
IlocOk(ds, idx) == -ColumnCount(ds) <= idx /\ idx < ColumnCount(ds)

\* a variant that counts the positions from one
IlocNameOffByOne(ds, idx) == ds.cols[((idx + 1) % ColumnCount(ds)) + 1]
\* dataset.data.iloc[:, idx].name, for a position that IlocOk accepts
IlocName(ds, idx) ==
    ds.cols[(IF idx < 0 THEN idx + ColumnCount(ds) ELSE idx) + 1]

\* dataset.data[label]: the column as a sequence; callers check HasColumn
HasColumn(ds, label) == \E c \in 1..Len(ds.cols) : ds.cols[c] = label
ColumnPos(ds, label) == CHOOSE c \in 1..Len(ds.cols) : ds.cols[c] = label
Column(ds, label) ==
    [r \in 1..Len(ds.rows) |-> ds.rows[r][ColumnPos(ds, label)]]

\* pandas Series.min() / Series.max(): nan for an empty series
SeriesMin(s) == IF Len(s) = 0 THEN NaN ELSE PyMin(s)
SeriesMax(s) == IF Len(s) = 0 THEN NaN ELSE PyMax(s)

SeqsUpTo(S, n) == UNION {[1..k -> S] : k \in 0..n}
NonEmptySeqsUpTo(S, n) == UNION {[1..k -> S] : k \in 1..n}

----------------------------------------------------------------------------
(* get_plot_data_extent(datasets, xcol, ycol)                              *)

\* max([len(dataset.data) - 1 for dataset in datasets])
MaxLenMinusOne(dss) == PyMax([i \in 1..Len(dss) |-> Len(dss[i].rows) - 1])

\* min([dataset.data[col].min() for dataset in datasets])
ColMin(dss, col) == PyMin([i \in 1..Len(dss) |-> SeriesMin(Column(dss[i], col))])
\* max([dataset.data[col].max() for dataset in datasets])
ColMax(dss, col) == PyMax([i \in 1..Len(dss) |-> SeriesMax(Column(dss[i], col))])

get_plot_data_extent(dss, xc, yc) ==
    IF xc = None
    THEN <<0, MaxLenMinusOne(dss), ColMin(dss, yc), ColMax(dss, yc)>>
    ELSE <<ColMin(dss, xc), ColMax(dss, xc), ColMin(dss, yc), ColMax(dss, yc)>>

----------------------------------------------------------------------------
(* The Plot object *)

\* Plot.__init__()
FreshPlot ==
    [fig |-> <<>>, axs |-> <<>>, datasets |-> <<>>, xcol |-> None, ycol |-> None,
     xlabel |-> None, ylabel |-> None, title |-> None, caption |-> None,
     label_key |-> None]

\* the Plot object as it is now
Self ==
    [fig |-> fig, axs |-> axs, datasets |-> datasets, xcol |-> xcol, ycol |-> ycol,
     xlabel |-> xlabel, ylabel |-> ylabel, title |-> title, caption |-> caption,
     label_key |-> label_key]

\* the parameters that _store_figure_parameters() keeps on the Plot object
StoredParameters(p) ==
    <<p.xcol, p.ycol, p.xlabel, p.ylabel, p.title, p.caption, p.label_key>>

\* Plot.DEFAULTS
DEFAULTS == [title_key |-> "title", caption_key |-> "citation", label_key |-> "id"]

----------------------------------------------------------------------------
(* _store_figure_parameters(datasets, xcol, ycol, xidx, yidx, xlabel,      *)
(* ylabel, title, caption, label_key), in the order of its statements. p   *)
(* is the Plot object, a the arguments of plot_datasets().                 *)

\* a variant that keeps the stored xcol when the caller gives none
StoreArgumentsKeepsXcol(p, a) ==
    [p EXCEPT !.datasets = a.datasets,
              !.xcol = IF a.xcol = None THEN p.xcol ELSE a.xcol,
              !.ycol = a.ycol,
              !.xlabel = a.xlabel, !.ylabel = a.ylabel, !.title = a.title,
              !.caption = a.caption, !.label_key = a.label_key]
\* self.datasets = datasets ... self.label_key = label_key
StoreArguments(p, a) ==
    [p EXCEPT !.datasets = a.datasets, !.xcol = a.xcol, !.ycol = a.ycol,
              !.xlabel = a.xlabel, !.ylabel = a.ylabel, !.title = a.title,
              !.caption = a.caption, !.label_key = a.label_key]

\* a variant that takes the header items whatever the caller gives
StoreTextDefaultsAlwaysMetadata(p, a) ==
    [p EXCEPT
       !.title = get_metadata_item_value(a.datasets[1], DEFAULTS.title_key),
       !.caption = get_metadata_item_value(a.datasets[1], DEFAULTS.caption_key),
       !.label_key = DEFAULTS.label_key]
\* a variant that takes the header items only for None and keeps ''
StoreTextDefaultsOnlyForNone(p, a) ==
    [p EXCEPT
       !.title = IF a.title = None
                 THEN get_metadata_item_value(a.datasets[1], DEFAULTS.title_key)
                 ELSE @,
       !.caption = IF a.caption = None
                   THEN get_metadata_item_value(a.datasets[1], DEFAULTS.caption_key)
                   ELSE @,
       !.label_key = IF ~Truthy(a.label_key) THEN DEFAULTS.label_key ELSE @]
\* if not title: ... if not caption: ... if not label_key: ...
StoreTextDefaults(p, a) ==
    [p EXCEPT
       !.title = IF ~Truthy(a.title)
                 THEN get_metadata_item_value(a.datasets[1], DEFAULTS.title_key)
                 ELSE @,
       !.caption = IF ~Truthy(a.caption)
                   THEN get_metadata_item_value(a.datasets[1], DEFAULTS.caption_key)
                   ELSE @,
       !.label_key = IF ~Truthy(a.label_key) THEN DEFAULTS.label_key ELSE @]

\* the index that the statement "if not xcol: if xidx is not None:" reads,
\* <<>> when it reads none
XIndexUsed(a) == IF ~Truthy(a.xcol) THEN a.xidx ELSE <<>>
\* the index that the statement "if not ycol:" reads
YIndexUsed(a) == IF ~Truthy(a.ycol) THEN <<a.yidx>> ELSE <<>>

\* self.xcol = datasets[0].data.iloc[:, xidx].name
StoreXcolFromIndex(p, a) ==
    IF XIndexUsed(a) = <<>> THEN [self |-> p, err |-> "ok"]
    ELSE IF ~IlocOk(a.datasets[1], a.xidx[1]) THEN [self |-> p, err |-> "IndexError"]
    ELSE [self |-> [p EXCEPT !.xcol = IlocName(a.datasets[1], a.xidx[1])],
          err |-> "ok"]

\* self.ycol = datasets[0].data.iloc[:, yidx].name
StoreYcolFromIndex(p, a) ==
    IF YIndexUsed(a) = <<>> THEN [self |-> p, err |-> "ok"]
    ELSE IF ~IlocOk(a.datasets[1], a.yidx) THEN [self |-> p, err |-> "IndexError"]
    ELSE [self |-> [p EXCEPT !.ycol = IlocName(a.datasets[1], a.yidx)],
          err |-> "ok"]

\* if not xlabel: self.xlabel = self.xcol; if not ylabel: self.ylabel = self.ycol
StoreLabelDefaults(p, a) ==
    [p EXCEPT !.xlabel = IF ~Truthy(a.xlabel) THEN p.xcol ELSE @,
              !.ylabel = IF ~Truthy(a.ylabel) THEN p.ycol ELSE @]

\* the whole method: the Plot object it leaves, and the exception it raises
store_figure_parameters(p, a) ==
    LET p1 == StoreTextDefaults(StoreArguments(p, a), a)
        rx == StoreXcolFromIndex(p1, a)
        ry == StoreYcolFromIndex(rx.self, a)
    IN  IF rx.err # "ok" THEN rx
        ELSE IF ry.err # "ok" THEN ry
        ELSE [self |-> StoreLabelDefaults(ry.self, a), err |-> "ok"]

----------------------------------------------------------------------------
(* The matplotlib side: cv is the record of what exists there, the figures *)
(* created, each axes' orientation and the calls received so far.          *)

Canvas == [nfigs |-> nfigs, xinv |-> xinv, yinv |-> yinv, log |-> <<>>]

EmptyDict == [k \in {} |-> ""]

\* one call on a figure or an axes; the fields a call does not take stay None
Entry(op, on, text) ==
    [op |-> op, on |-> on, text |-> text, x |-> None, y |-> None,
     label |-> None, opts |-> EmptyDict]

Logged(cv, e) == [cv EXCEPT !.log = Append(@, e)]

\* setup_figure_and_axes(): plt.figure() makes figure n, fig.add_subplot() its
\* axes n, drawn in the normal orientation
setup_figure_and_axes(p, cv) ==
    LET n == cv.nfigs + 1
    IN  [self |-> [p EXCEPT !.fig = <<n>>, !.axs = Append(@, n)],
         cv |-> [cv EXCEPT !.nfigs = n,
                           !.xinv = @ @@ (n :> FALSE),
                           !.yinv = @ @@ (n :> FALSE),
                           !.log = @ \o <<Entry("figure", n, None),
                                          Entry("add_subplot", n, None)>>]]

\* _setup_fallback_figure_and_axes(fig, axs)
setup_fallback_figure_and_axes(p, cv, a) ==
    LET p1 == IF a.fig # <<>> THEN [p EXCEPT !.fig = a.fig] ELSE p
        p2 == IF a.axs # <<>> THEN [p1 EXCEPT !.axs = a.axs] ELSE p1
    IN  IF p2.fig = <<>> \/ p2.axs = <<>>
        THEN setup_figure_and_axes(p2, cv)
        ELSE [self |-> p2, cv |-> cv]

\* self.axs[axs_idx]
TargetAxes(p, a) == p.axs[a.axs_idx + 1]

\* add_figure_title(title): self.fig.suptitle(title, wrap=True)
add_figure_title(p, cv) == Logged(cv, Entry("suptitle", p.fig[1], p.title))

\* add_figure_caption(caption): self.fig.text(...), self.fig.subplots_adjust(...)
add_figure_caption(p, cv) ==
    Logged(Logged(cv, Entry("text", p.fig[1], p.caption)),
           Entry("subplots_adjust", p.fig[1], None))

\* setup_data_plot(ax, xlabel, ylabel)
setup_data_plot(cv, ax, xl, yl) ==
    LET c1 == IF Truthy(xl) THEN Logged(cv, Entry("set_xlabel", ax, xl)) ELSE cv
    IN  IF Truthy(yl) THEN Logged(c1, Entry("set_ylabel", ax, yl)) ELSE c1

\* a variant that adds the title again after the caption
AnnotationsTitleTwice(p, cv, a) ==
    setup_data_plot(add_figure_title(p, add_figure_caption(p, add_figure_title(p, cv))),
                    TargetAxes(p, a), p.xlabel, p.ylabel)
\* _add_figure_annotations(axs_idx)
add_figure_annotations(p, cv, a) ==
    setup_data_plot(add_figure_caption(p, add_figure_title(p, cv)),
                    TargetAxes(p, a), p.xlabel, p.ylabel)

----------------------------------------------------------------------------
(* plot_data() and _plot_datasets()                                        *)

\* dict.update({k: v})
DictUpdate(d, k, v) == [x \in DOMAIN d \cup {k} |-> IF x = k THEN v ELSE d[x]]

\* f'C{i}' for the positions the model reaches
FallbackColors == <<"C0", "C1", "C2", "C3">>
ColorOf(i) == FallbackColors[i + 1]

\* ax.invert_xaxis() / ax.invert_yaxis(): the axis turns over
invert_xaxis(cv, ax) ==
    Logged([cv EXCEPT !.xinv[ax] = ~@], Entry("invert_xaxis", ax, None))
invert_yaxis(cv, ax) ==
    Logged([cv EXCEPT !.yinv[ax] = ~@], Entry("invert_yaxis", ax, None))

\* a variant that never looks xcol up
PlotDataChecksOnlyYcol(ds, xc, yc) == ~HasColumn(ds, yc)
\* dataset.data[xcol] or dataset.data[ycol] raises KeyError
PlotDataMissesColumn(ds, xc, yc) ==
    IF Truthy(xc) THEN ~HasColumn(ds, xc) \/ ~HasColumn(ds, yc)
    ELSE ~HasColumn(ds, yc)

\* a variant that calls ax.legend() whatever the label
PlotDataAlwaysLegend(cv, ax, ds, xc, yc, label, ix, iy, opts) ==
    IF PlotDataMissesColumn(ds, xc, yc) THEN [cv |-> cv, err |-> "KeyError"]
    ELSE
      LET c1 == Logged(cv, [Entry("plot", ax, None) EXCEPT
                              !.x = IF Truthy(xc) THEN xc ELSE None,
                              !.y = yc, !.label = label, !.opts = opts])
          c2 == IF ix THEN invert_xaxis(c1, ax) ELSE c1
          c3 == IF iy THEN invert_yaxis(c2, ax) ELSE c2
      IN  [cv |-> Logged(c3, Entry("legend", ax, None)), err |-> "ok"]
\* plot_data(ax, dataset, xcol, ycol, label, invert_xaxis, invert_yaxis, opts)
plot_data(cv, ax, ds, xc, yc, label, ix, iy, opts) ==
    IF PlotDataMissesColumn(ds, xc, yc) THEN [cv |-> cv, err |-> "KeyError"]
    ELSE
      LET c1 == Logged(cv, [Entry("plot", ax, None) EXCEPT
                              !.x = IF Truthy(xc) THEN xc ELSE None,
                              !.y = yc, !.label = label, !.opts = opts])
          c2 == IF ix THEN invert_xaxis(c1, ax) ELSE c1
          c3 == IF iy THEN invert_yaxis(c2, ax) ELSE c2
          c4 == IF Truthy(label) THEN Logged(c3, Entry("legend", ax, None)) ELSE c3
      IN  [cv |-> c4, err |-> "ok"]

\* the loop "for i, dataset in enumerate(self.datasets)" from position i (from
\* 0); rs is the canvas, the opts dict as the loop has left it, and "ok" or
\* the exception that ended the loop
RECURSIVE PlotFrom(_, _, _, _, _)
PlotFrom(p, a, i, generate_colors, rs) ==
    IF i >= Len(p.datasets) \/ rs.err # "ok" THEN rs
    ELSE
      LET ds == p.datasets[i + 1]
          label == get_metadata_item_value(ds, p.label_key)
          opts == IF generate_colors THEN DictUpdate(rs.opts, "color", ColorOf(i))
                  ELSE rs.opts
          r == plot_data(rs.cv, TargetAxes(p, a), ds, p.xcol, p.ycol, label,
                         a.invert_xaxis, a.invert_yaxis, opts)
      IN  PlotFrom(p, a, i + 1, generate_colors,
                   [cv |-> r.cv, opts |-> opts, err |-> r.err])

\* _plot_datasets(axs_idx, invert_xaxis, invert_yaxis, opts)
plot_datasets_loop(p, cv, a, opts) ==
    PlotFrom(p, a, 0, ~("color" \in DOMAIN opts), [cv |-> cv, opts |-> opts, err |-> "ok"])

----------------------------------------------------------------------------
(* plot_datasets(datasets, fig, axs, axs_idx, xcol, ycol, xidx, yidx,      *)
(* xlabel, ylabel, title, caption, label_key, invert_xaxis, invert_yaxis,  *)
(* show, opts={})                                                          *)

\* the dict that the parameter opts is bound to: the caller's, or the one
\* default object of the function
OptsObject(a, dflt) == IF a.opts_given THEN a.opts ELSE dflt

\* the whole call: the Plot object, the canvas, the opts dict and the outcome
PlotDatasetsResult(p, cv, a, dflt) ==
    LET s0 == setup_fallback_figure_and_axes(p, cv, a)
        st == store_figure_parameters(s0.self, a)
        an == add_figure_annotations(st.self, s0.cv, a)
        pl == plot_datasets_loop(st.self, an, a, OptsObject(a, dflt))
    IN  IF st.err # "ok"
        THEN [self |-> st.self, cv |-> s0.cv, opts |-> OptsObject(a, dflt),
              err |-> st.err, target |-> TargetAxes(s0.self, a), start |-> s0.cv]
        ELSE [self |-> st.self, cv |-> pl.cv, opts |-> pl.opts,
              err |-> pl.err, target |-> TargetAxes(s0.self, a), start |-> s0.cv]

plot_datasets(a) ==
    \E r \in {PlotDatasetsResult(Self, Canvas, a, defaultOpts)} :
        /\ fig' = r.self.fig
        /\ axs' = r.self.axs
        /\ aliased' = (aliased \/ a.axs # <<>>)
        /\ callerAxs' = IF aliased \/ a.axs # <<>> THEN r.self.axs ELSE callerAxs
        /\ datasets' = r.self.datasets
        /\ xcol' = r.self.xcol
        /\ ycol' = r.self.ycol
        /\ xlabel' = r.self.xlabel
        /\ ylabel' = r.self.ylabel
        /\ title' = r.self.title
        /\ caption' = r.self.caption
        /\ label_key' = r.self.label_key
        /\ defaultOpts' = IF a.opts_given THEN defaultOpts ELSE r.opts
        /\ nfigs' = r.cv.nfigs
        /\ xinv' = r.cv.xinv
        /\ yinv' = r.cv.yinv
        /\ call' = a
        /\ before' = [differs |-> StoredParameters(Self) # StoredParameters(r.self),
                      hadFig |-> fig # <<>>, hadAxs |-> axs # <<>>,
                      nfigs |-> nfigs, target |-> r.target,
                      xinv |-> r.start.xinv[r.target],
                      yinv |-> r.start.yinv[r.target]]
        /\ err' = r.err
        /\ log' = r.cv.log
        /\ UNCHANGED extentVars

----------------------------------------------------------------------------
(* The inputs the model draws *)

Header1 == [k \in {"title", "citation", "id"} |->
              IF k = "title" THEN "A title" ELSE IF k = "citation" THEN "A citation"
              ELSE "1"]
Header2 == [k \in {"id", "name"} |-> IF k = "id" THEN "2" ELSE "second"]
NoHeader == EmptyDict

\* a dataset of the first ncols columns, no rows
PlotDataset(ncols, header) ==
    [cols |-> SubSeq(Labels, 1, ncols), rows |-> <<>>, header |-> header]

\* one more than any column count, and as far below zero
Indices == (0 - MaxCols - 1)..MaxCols

\* plot_datasets(datasets) with every other parameter at its default
DefaultArgs(dss) ==
    [datasets |-> dss, fig |-> <<>>, axs |-> <<>>, axs_idx |-> 0,
     xcol |-> None, ycol |-> None, xidx |-> <<>>, yidx |-> 0,
     xlabel |-> None, ylabel |-> None, title |-> None, caption |-> None,
     label_key |-> None, invert_xaxis |-> FALSE, invert_yaxis |-> FALSE,
     opts_given |-> FALSE, opts |-> EmptyDict]

PlotInit ==
    /\ fig = FreshPlot.fig
    /\ axs = FreshPlot.axs
    /\ callerAxs = <<>>
    /\ aliased = FALSE
    /\ datasets = FreshPlot.datasets
    /\ xcol = FreshPlot.xcol
    /\ ycol = FreshPlot.ycol
    /\ xlabel = FreshPlot.xlabel
    /\ ylabel = FreshPlot.ylabel
    /\ title = FreshPlot.title
    /\ caption = FreshPlot.caption
    /\ label_key = FreshPlot.label_key
    /\ defaultOpts = EmptyDict
    /\ nfigs = 0
    /\ xinv = <<>>
    /\ yinv = <<>>
    /\ call = DefaultArgs(<<>>)
    /\ before = [differs |-> FALSE, hadFig |-> FALSE, hadAxs |-> FALSE,
                 nfigs |-> 0, target |-> 0,
                 xinv |-> FALSE, yinv |-> FALSE]
    /\ err = "none"
    /\ log = <<>>

Init ==
    /\ PlotInit
    /\ extentArgs = [datasets |-> <<>>, xcol |-> None, ycol |-> None]
    /\ extent = <<>>

(* Calls that select the columns. The x family crosses every xcol with     *)
(* every xidx, for a y-axis taken from a valid index, an index out of      *)
(* range, a column label and a label that is no column; the y family does  *)
(* the same for ycol and yidx.                                             *)
\* one dataset, or as many as the model allows, of the same columns
AxesDatasetLists ==
    {[i \in 1..n |-> PlotDataset(MaxCols, Header1)] : n \in {1, MaxDatasets}}

OptionalIndices == {<<>>} \cup {<<i>> : i \in Indices}

XFamily ==
    {[DefaultArgs(dss) EXCEPT !.xcol = xc, !.xidx = xi, !.ycol = y[1], !.yidx = y[2]] :
        dss \in AxesDatasetLists,
        xc \in {None, "", "time", "dummy"},
        xi \in OptionalIndices,
        y \in {<<None, 0>>, <<None, MaxCols>>, <<"depth", 0>>, <<"dummy", 0>>}}

YFamily ==
    {[DefaultArgs(dss) EXCEPT !.ycol = yc, !.yidx = yi, !.xcol = x[1], !.xidx = x[2]] :
        dss \in AxesDatasetLists,
        yc \in {None, "", "depth", "dummy"},
        yi \in Indices,
        x \in {<<None, <<>> >>, <<None, <<MaxCols>> >>, <<"time", <<>> >>,
               <<"dummy", <<0>> >>}}

(* Calls that override the title, the caption and the legend label key,    *)
(* on datasets whose first header has or lacks the items.                  *)
TextDatasetLists ==
    {[i \in 1..n |-> IF i = 1 THEN d ELSE e] :
        n \in {1, MaxDatasets},
        d \in {PlotDataset(MaxCols, Header1), PlotDataset(MaxCols, Header2)},
        e \in {PlotDataset(MaxCols, Header1), PlotDataset(MaxCols, Header2)}}

TextFamily ==
    {[DefaultArgs(dss) EXCEPT !.title = t, !.caption = c, !.label_key = k] :
        dss \in TextDatasetLists,
        t \in {None, "", "My title"},
        c \in {None, "", "My caption"},
        k \in {None, "name"}}

(* Calls that override the axis labels, with and without an x column.      *)
LabelFamily ==
    {[DefaultArgs(dss) EXCEPT !.xlabel = xl, !.ylabel = yl, !.xcol = xc,
                              !.xidx = xi, !.yidx = yi] :
        dss \in AxesDatasetLists,
        xl \in {None, "", "X"},
        yl \in {None, "", "Y"},
        xc \in {None, "time"},
        xi \in {<<>>, <<0>>},
        yi \in {0, MaxCols - 1, MaxCols}}

ResolveArgs == XFamily \cup YFamily \cup TextFamily \cup LabelFamily

Next == \E a \in ResolveArgs : plot_datasets(a)

\* one Plot object, plot_datasets() called on it again and again
Spec == Init /\ [][Next]_vars

(* Calls that draw: one or more datasets with and without a legend label,  *)
(* the opts parameter omitted or given, the axes inverted or not, and a    *)
(* y index in or out of range.                                             *)
RenderDatasetLists ==
    NonEmptySeqsUpTo({PlotDataset(MaxCols, Header1), PlotDataset(MaxCols, NoHeader)},
                     MaxDatasets)

OptsChoices ==
    {<<FALSE, EmptyDict>>, <<TRUE, EmptyDict>>,
     <<TRUE, [k \in {"marker"} |-> "."]>>, <<TRUE, [k \in {"color"} |-> "red"]>>}

RenderArgs ==
    {[DefaultArgs(dss) EXCEPT !.opts_given = o[1], !.opts = o[2],
                              !.invert_xaxis = ix, !.invert_yaxis = iy,
                              !.yidx = yi] :
        dss \in RenderDatasetLists, o \in OptsChoices,
        ix \in BOOLEAN, iy \in BOOLEAN, yi \in {0, MaxCols}}

NextRender == \E a \in RenderArgs : plot_datasets(a)

SpecRender == Init /\ [][NextRender]_vars

(* Calls that pass figure and axes handles. The caller has made one figure *)
(* with one axes before it constructs the Plot and keeps the axes in a     *)
(* list; a call passes the figure or not, that list or not, and draws on a *)
(* position of the list that the Plot object then holds. The caller may    *)
(* also call setup_figure_and_axes() itself, as the command line does for  *)
(* a figure size.                                                          *)
CallerFigure == <<1>>
CallerAxes == <<1>>

InitFigure ==
    /\ fig = FreshPlot.fig
    /\ axs = FreshPlot.axs
    /\ callerAxs = CallerAxes
    /\ aliased = FALSE
    /\ datasets = FreshPlot.datasets
    /\ xcol = FreshPlot.xcol
    /\ ycol = FreshPlot.ycol
    /\ xlabel = FreshPlot.xlabel
    /\ ylabel = FreshPlot.ylabel
    /\ title = FreshPlot.title
    /\ caption = FreshPlot.caption
    /\ label_key = FreshPlot.label_key
    /\ defaultOpts = EmptyDict
    /\ nfigs = Len(CallerAxes)
    /\ xinv = [i \in 1..Len(CallerAxes) |-> FALSE]
    /\ yinv = [i \in 1..Len(CallerAxes) |-> FALSE]
    /\ call = DefaultArgs(<<>>)
    /\ before = [differs |-> FALSE, hadFig |-> FALSE, hadAxs |-> FALSE,
                 nfigs |-> Len(CallerAxes), target |-> 0,
                 xinv |-> FALSE, yinv |-> FALSE]
    /\ err = "none"
    /\ log = <<>>
    /\ extentArgs = [datasets |-> <<>>, xcol |-> None, ycol |-> None]
    /\ extent = <<>>

\* the caller calls setup_figure_and_axes(); no plot_datasets() call is the
\* last call any more
SetupFigureAndAxes ==
    /\ nfigs < MaxFigures
    /\ \E r \in {setup_figure_and_axes(Self, Canvas)} :
        /\ fig' = r.self.fig
        /\ axs' = r.self.axs
        /\ callerAxs' = IF aliased THEN r.self.axs ELSE callerAxs
        /\ nfigs' = r.cv.nfigs
        /\ xinv' = r.cv.xinv
        /\ yinv' = r.cv.yinv
        /\ log' = r.cv.log
        /\ err' = "none"
        /\ UNCHANGED <<aliased, datasets, xcol, ycol, xlabel, ylabel, title,
                       caption, label_key, defaultOpts, call, before, extentVars>>

\* self.axs[axs_idx] exists once the figure and the axes are set up
AxsIdxInRange(a) ==
    a.axs_idx < Len(setup_fallback_figure_and_axes(Self, Canvas, a).self.axs)

FigureArgs ==
    {a \in {[DefaultArgs(dss) EXCEPT !.fig = f, !.axs = x, !.axs_idx = i] :
                dss \in AxesDatasetLists, f \in {<<>>, CallerFigure},
                x \in {<<>>, callerAxs}, i \in 0..(MaxFigures - 1)} :
        AxsIdxInRange(a)}

NextFigure ==
    \/ SetupFigureAndAxes
    \/ \E a \in FigureArgs : plot_datasets(a)

SpecFigure == InitFigure /\ [][NextFigure]_vars

(* get_plot_data_extent() on every list of up to MaxDatasets tables of up  *)
(* to MaxRows rows, each row a time and a depth.                           *)
ExtentDataset(rows) ==
    [cols |-> SubSeq(Labels, 1, 2), rows |-> rows, header |-> NoHeader]

ExtentDatasets == {ExtentDataset(rows) : rows \in SeqsUpTo(Values \X Values, MaxRows)}

ExtentInputs ==
    {[datasets |-> dss, xcol |-> xc, ycol |-> "depth"] :
        dss \in NonEmptySeqsUpTo(ExtentDatasets, MaxDatasets),
        xc \in {None, "time"}}

InitExtent ==
    /\ PlotInit
    /\ extentArgs \in ExtentInputs
    /\ extent = <<>>

ComputeExtent ==
    /\ extent = <<>>
    /\ extent' = get_plot_data_extent(extentArgs.datasets, extentArgs.xcol,
                                      extentArgs.ycol)
    /\ UNCHANGED <<plotVars, extentArgs>>

NextExtent == ComputeExtent

SpecExtent == InitExtent /\ [][NextExtent]_vars

----------------------------------------------------------------------------
(* Properties of get_plot_data_extent(), checked under SpecExtent          *)

ExtentComputed == extent # <<>>

\* the values of a column over all rows of all datasets
AllValues(dss, col) ==
    {Column(dss[i], col)[r] : <<i, r>> \in
        {<<j, q>> \in (1..Len(dss)) \X (1..MaxRows + 1) : q <= Len(dss[j].rows)}}
SetMin(S) == CHOOSE v \in S : \A w \in S : v <= w
SetMax(S) == CHOOSE v \in S : \A w \in S : v >= w
LongestLen(dss) == SetMax({Len(dss[i].rows) : i \in 1..Len(dss)})

\* [left, right, bottom, top] as the minima and maxima over all rows
ExtentIsMinMax ==
    LET dss == extentArgs.datasets
        xs == AllValues(dss, "time")
        ys == AllValues(dss, extentArgs.ycol)
    IN  /\ extent[3] = SetMin(ys)
        /\ extent[4] = SetMax(ys)
        /\ IF extentArgs.xcol = None
           THEN extent[1] = 0 /\ extent[2] = LongestLen(dss) - 1
           ELSE extent[1] = SetMin(xs) /\ extent[2] = SetMax(xs)

FirstDatasetHasRows == Len(extentArgs.datasets[1].rows) >= 1
SomeDatasetHasRows == \E i \in 1..Len(extentArgs.datasets) : Len(extentArgs.datasets[i].rows) >= 1

\* C1: for every non-empty list of datasets the extent is [left, right,
\* bottom, top] with bottom/top the minimum/maximum of ycol over all rows of
\* all datasets, and left/right 0 and the longest row count - 1 when xcol is
\* None, else the minimum/maximum of xcol over all rows of all datasets (the
\* list holds at least one row, so that the extrema exist).
C1_ExtentIsMinMax == (ExtentComputed /\ SomeDatasetHasRows) => ExtentIsMinMax

\* What the code does give: the same, whenever the first dataset has a row.
ExtentIsMinMaxWhenFirstHasRows ==
    (ExtentComputed /\ FirstDatasetHasRows) => ExtentIsMinMax

\* C8: left <= right and bottom <= top for every non-empty list of datasets,
\* with and without xcol, tables of zero rows included.
C8_ExtentOrdered ==
    ExtentComputed => (PyLe(extent[1], extent[2]) /\ PyLe(extent[3], extent[4]))

\* What the code does give: the order, whenever the first dataset has a row.
ExtentOrderedWhenFirstHasRows ==
    (ExtentComputed /\ FirstDatasetHasRows) =>
        (PyLe(extent[1], extent[2]) /\ PyLe(extent[3], extent[4]))

----------------------------------------------------------------------------
(* Properties of the parameters plot_datasets() stores, checked under Spec *)

Called == err # "none"
FirstDataset == call.datasets[1]
FirstColumnCount == Len(FirstDataset.cols)

\* the index arguments that the call reads: yidx when ycol is not given,
\* xidx when it is given and xcol is not
UsesXidx == ~Truthy(call.xcol) /\ call.xidx # <<>>
UsesYidx == ~Truthy(call.ycol)

InColumnRange(i) == 0 <= i /\ i < FirstColumnCount
InSignedColumnRange(i) == 0 - FirstColumnCount <= i /\ i < FirstColumnCount

\* C2: called without ycol, the stored ycol is the label at position yidx of
\* datasets[0]; called without xcol, the stored xcol is the label at position
\* xidx of datasets[0] if xidx is given and None if it is not.
C2_IndexResolvesToLabel ==
    Called =>
        /\ (UsesYidx /\ InColumnRange(call.yidx) /\ err # "IndexError")
              => ycol = FirstDataset.cols[call.yidx + 1]
        /\ (UsesXidx /\ InColumnRange(call.xidx[1]))
              => xcol = FirstDataset.cols[call.xidx[1] + 1]
        /\ (call.xcol = None /\ call.xidx = <<>>) => xcol = None

\* C2 witness: plot_datasets(datasets, xidx=0, yidx=1) has stored the first
\* column's label as xcol and the second's as ycol.
C2_Witness ==
    /\ Called /\ err = "ok"
    /\ call.xcol = None /\ call.ycol = None
    /\ call.xidx = <<0>> /\ call.yidx = 1
    /\ xcol = "time" /\ ycol = "depth"

\* C3 as stated: an index the call reads that is outside [0, column_count),
\* negative or too large, makes the call fail with IndexError.
C3_Original ==
    Called =>
        /\ (UsesXidx /\ ~InColumnRange(call.xidx[1])) => err = "IndexError"
        /\ (UsesYidx /\ ~InColumnRange(call.yidx)) => err = "IndexError"

\* C3 as amended: the call fails with IndexError exactly when an index it
\* reads is outside [-column_count, column_count), and such an index is never
\* resolved to a label; a negative index inside that range is resolved to the
\* column counted from the last one.
C3_IndexOutOfSignedRangeFails ==
    Called =>
        /\ err = "IndexError" <=>
              \/ UsesXidx /\ ~InSignedColumnRange(call.xidx[1])
              \/ UsesYidx /\ ~InSignedColumnRange(call.yidx)
        /\ (UsesXidx /\ ~InSignedColumnRange(call.xidx[1])) => xcol = call.xcol
        /\ (UsesYidx /\ ~InSignedColumnRange(call.yidx)) => ycol = call.ycol
        /\ (UsesXidx /\ InSignedColumnRange(call.xidx[1]) /\ call.xidx[1] < 0)
              => xcol = FirstDataset.cols[FirstColumnCount + call.xidx[1] + 1]
        /\ (UsesYidx /\ InSignedColumnRange(call.yidx) /\ call.yidx < 0
              /\ err # "IndexError")
              => ycol = FirstDataset.cols[FirstColumnCount + call.yidx + 1]

\* C3 witness: a call with xidx = -(column_count + 1) has failed with
\* IndexError and left xcol unresolved.
C3_Witness ==
    /\ Called /\ UsesXidx
    /\ call.xidx[1] = 0 - FirstColumnCount - 1
    /\ err = "IndexError" /\ xcol = None

\* the calls of the log with the given name
CallsOf(op) == {i \in 1..Len(log) : log[i].op = op}
AnnotationOps == {"suptitle", "text", "subplots_adjust", "set_xlabel", "set_ylabel"}
NothingAppliedOrDrawn ==
    \A i \in 1..Len(log) : log[i].op \notin AnnotationOps \cup {"plot"}

\* a label the caller supplies that is no column of datasets[0]
NonEmptyNotAColumn(l) == Truthy(l) /\ ~HasColumn(FirstDataset, l)
IndexFails ==
    \/ UsesXidx /\ ~InSignedColumnRange(call.xidx[1])
    \/ UsesYidx /\ ~InSignedColumnRange(call.yidx)

\* C4 as stated: a supplied (non-empty) xcol or ycol that is no column of
\* datasets[0] makes the call fail with KeyError before any title, caption, axis label
\* or series has been applied to the canvas.
C4_Original ==
    (Called /\ (NonEmptyNotAColumn(call.xcol) \/ NonEmptyNotAColumn(call.ycol))) =>
        (err = "KeyError" /\ NothingAppliedOrDrawn)

\* C4 as amended: a supplied non-empty xcol or ycol that is no column of
\* datasets[0] makes the call fail: with IndexError from the resolution, and
\* nothing applied, when the other axis reads an index out of range;
\* otherwise with KeyError when the first series is to be drawn, after the
\* title, the caption and the non-empty axis labels have been applied and
\* before any series is drawn.
C4_UnknownLabelFailsAtFirstSeries ==
    (Called /\ (NonEmptyNotAColumn(call.xcol) \/ NonEmptyNotAColumn(call.ycol))) =>
        IF IndexFails
        THEN err = "IndexError" /\ NothingAppliedOrDrawn
        ELSE /\ err = "KeyError"
             /\ CallsOf("plot") = {}
             /\ Cardinality(CallsOf("suptitle")) = 1
             /\ Cardinality(CallsOf("text")) = 1
             /\ Truthy(xlabel) => Cardinality(CallsOf("set_xlabel")) = 1
             /\ Truthy(ylabel) => Cardinality(CallsOf("set_ylabel")) = 1

\* C4 witness: plot_datasets(datasets, xcol='dummy', yidx=1) has failed with
\* KeyError, the title and the caption applied and no series drawn.
C4_Witness ==
    /\ Called /\ call.xcol = "dummy" /\ call.ycol = None /\ call.yidx = 1
    /\ err = "KeyError"
    /\ CallsOf("suptitle") # {} /\ CallsOf("text") # {} /\ CallsOf("plot") = {}

\* the header item of datasets[0], '' when the header has no such key
FirstHeaderItem(key) ==
    IF key \in DOMAIN FirstDataset.header THEN FirstDataset.header[key] ELSE ""

\* C5: a non-empty xcol, ycol, title, caption or label_key that the caller
\* supplies is the stored value, whatever the index arguments and the header
\* of datasets[0], and supplying xcol with xidx raises no IndexError; with
\* none supplied, title and caption are the 'title' and 'citation' header
\* items of datasets[0], or '' when it has none, and label_key is 'id'.
C5_CallerValueWins ==
    Called =>
        /\ Truthy(call.xcol) => xcol = call.xcol
        /\ Truthy(call.ycol) => ycol = call.ycol
        /\ Truthy(call.title) => title = call.title
        /\ Truthy(call.caption) => caption = call.caption
        /\ Truthy(call.label_key) => label_key = call.label_key
        /\ (Truthy(call.xcol) /\ ~(UsesYidx /\ ~InSignedColumnRange(call.yidx)))
              => err # "IndexError"
        /\ call.title = None => title = FirstHeaderItem("title")
        /\ call.caption = None => caption = FirstHeaderItem("citation")
        /\ call.label_key = None => label_key = "id"

\* C5 witness: a call with xcol and an out-of-range xidx has succeeded with
\* the caller's xcol stored and the title taken from the header.
C5_Witness ==
    /\ Called /\ err = "ok"
    /\ call.xcol = "time" /\ call.xidx = <<MaxCols>> /\ xcol = "time"
    /\ call.title = None /\ title = "A title"

\* C6: after any earlier calls on the same Plot object, a call leaves the
\* stored xcol, ycol, xlabel, ylabel, title, caption and label_key equal to
\* what the same call stores on a fresh Plot object.
C6_StoredParametersIgnoreHistory ==
    Called =>
        StoredParameters(Self) =
            StoredParameters(store_figure_parameters(FreshPlot, call).self)

\* C6 witness: a call with no overrides on a Plot object that an earlier
\* call had left with other parameters, and xcol back to None.
C6_Witness ==
    /\ Called /\ before.nfigs > 0 /\ before.differs
    /\ call.xcol = None /\ call.xidx = <<>> /\ call.title = None
    /\ xcol = None /\ title = FirstHeaderItem("title")

----------------------------------------------------------------------------
(* Properties of the drawing, checked under SpecRender                     *)

\* the "plot" calls of the log, in the order they were made
RECURSIVE PlotCallsFrom(_)
PlotCallsFrom(i) ==
    IF i > Len(log) THEN <<>>
    ELSE IF log[i].op = "plot" THEN <<log[i]>> \o PlotCallsFrom(i + 1)
    ELSE PlotCallsFrom(i + 1)
PlotCalls == PlotCallsFrom(1)

CallerFixesColor == call.opts_given /\ "color" \in DOMAIN call.opts

\* C7: in every call for which the caller supplies no color (opts omitted, or
\* an opts dict without 'color'), the series at position i is drawn with the
\* fallback color of i: C0, C1, ...
C7_FallbackColorByPosition ==
    (Called /\ ~CallerFixesColor) =>
        \A i \in 1..Len(PlotCalls) :
            /\ "color" \in DOMAIN PlotCalls[i].opts
            /\ PlotCalls[i].opts["color"] = ColorOf(i - 1)

\* C9: a call that completes on axes in the normal orientation leaves the x-
\* axis (the y-axis) inverted when invert_xaxis (invert_yaxis) is requested,
\* for every number of datasets, and leaves the orientation as it was when
\* the flag is not requested.
C9_InvertedWhenRequested ==
    (Called /\ err = "ok") =>
        /\ (call.invert_xaxis /\ ~before.xinv) => xinv[before.target]
        /\ (call.invert_yaxis /\ ~before.yinv) => yinv[before.target]
        /\ ~call.invert_xaxis => xinv[before.target] = before.xinv
        /\ ~call.invert_yaxis => yinv[before.target] = before.yinv

\* C10: within one call the title and the caption are each applied at most
\* once, exactly once in a call that gets as far as drawing, and both before
\* the first series is drawn: no series is drawn before them and neither is
\* applied after a series.
C10_AnnotationsOnceBeforeSeries ==
    Called =>
        /\ Cardinality(CallsOf("suptitle")) <= 1
        /\ Cardinality(CallsOf("text")) <= 1
        /\ err # "IndexError" =>
              (Cardinality(CallsOf("suptitle")) = 1 /\ Cardinality(CallsOf("text")) = 1)
        /\ \A i \in CallsOf("plot") :
              /\ \E j \in CallsOf("suptitle") : j < i
              /\ \E j \in CallsOf("text") : j < i
              /\ \A j \in CallsOf("suptitle") \cup CallsOf("text") : j < i

\* C10 witness: a call that has drawn the most series the model allows, after
\* one title and one caption.
C10_Witness ==
    /\ Called /\ err = "ok"
    /\ Cardinality(CallsOf("plot")) = MaxDatasets
    /\ Cardinality(CallsOf("suptitle")) = 1 /\ Cardinality(CallsOf("text")) = 1

----------------------------------------------------------------------------
(* The figure and the axes of a call, checked under SpecFigure             *)

FigureOps == {"suptitle", "text", "subplots_adjust"}
AxesOps == {"set_xlabel", "set_ylabel", "plot", "invert_xaxis", "invert_yaxis",
            "legend"}
FigureCreated == nfigs > before.nfigs
\* every call on a figure went to figure f, every call on an axes to axes x
AllAppliedTo(f, x) ==
    \A i \in 1..Len(log) :
        /\ log[i].op \in FigureOps => log[i].on = f
        /\ log[i].op \in AxesOps => log[i].on = x

\* C11: a call that is passed a figure, a list of axes or both, or that
\* follows setup_figure_and_axes(), creates no figure; a figure that is passed
\* is self.fig afterwards and carries the title and the caption; a list that
\* is passed is self.axs afterwards, as long as it was, and its axes at
\* axs_idx carries the axis labels and the series; a figure is created only
\* by a call that is passed neither and finds neither on the Plot object.
C11_CallerHandlesReused ==
    Called =>
        /\ (call.fig # <<>> \/ call.axs # <<>> \/ (before.hadFig /\ before.hadAxs))
              => ~FigureCreated
        /\ call.fig # <<>> =>
              /\ fig = call.fig
              /\ \A i \in 1..Len(log) : log[i].op \in FigureOps => log[i].on = call.fig[1]
        /\ call.axs # <<>> =>
              /\ axs = call.axs
              /\ callerAxs = call.axs
              /\ \A i \in 1..Len(log) :
                    log[i].op \in AxesOps => log[i].on = call.axs[call.axs_idx + 1]
        /\ FigureCreated =>
              /\ call.fig = <<>> /\ call.axs = <<>>
              /\ ~before.hadFig /\ ~before.hadAxs

\* what the code does: a figure is created exactly when, the arguments
\* applied, the figure or the list of axes is missing
FigureCreatedWhenOneIsMissing ==
    Called =>
        (FigureCreated <=>
            \/ (call.fig = <<>> /\ ~before.hadFig)
            \/ (call.axs = <<>> /\ ~before.hadAxs))

\* a call that is passed both the figure and the list draws on them and
\* leaves the list as long as it was
BothHandlesReused ==
    (Called /\ call.fig # <<>> /\ call.axs # <<>>) =>
        /\ ~FigureCreated
        /\ fig = call.fig /\ axs = call.axs /\ callerAxs = call.axs
        /\ AllAppliedTo(call.fig[1], call.axs[call.axs_idx + 1])

\* a call after setup_figure_and_axes() that is passed no handle draws on the
\* figure that was set up
SetUpFigureReused ==
    (Called /\ before.hadFig /\ before.hadAxs /\ call.fig = <<>> /\ call.axs = <<>>) =>
        /\ ~FigureCreated
        /\ fig # <<>>
        /\ AllAppliedTo(fig[1], axs[call.axs_idx + 1])

----------------------------------------------------------------------------
(* The legend, checked under SpecRender                                    *)

\* the label of the dataset at position i (from 1) of the call: its own
\* header item for the stored label_key
OwnLabel(i) == get_metadata_item_value(call.datasets[i], label_key)

\* C12: every series is drawn with the label looked up on its own dataset;
\* ax.legend() is called in a plot_datasets() call only if some dataset of
\* the call has a non-empty label, and is not called at all when the label of
\* every dataset is ''.
C12_LegendOnlyForLabelledSeries ==
    Called =>
        /\ \A i \in 1..Len(PlotCalls) : PlotCalls[i].label = OwnLabel(i)
        /\ CallsOf("legend") # {} =>
              \E i \in 1..Len(call.datasets) : Truthy(OwnLabel(i))
        /\ (\A i \in 1..Len(call.datasets) : OwnLabel(i) = "") =>
              CallsOf("legend") = {}

\* C12 witness: a call has drawn as many series as the model allows, the
\* first without a label and the last with one, and has called ax.legend().
C12_Witness ==
    /\ Called /\ err = "ok"
    /\ Len(call.datasets) = MaxDatasets /\ Len(PlotCalls) = MaxDatasets
    /\ OwnLabel(1) = "" /\ Truthy(OwnLabel(MaxDatasets))
    /\ CallsOf("legend") # {}

\* a call has drawn series that all have the label '' and has called
\* ax.legend() for none
UnlabelledSeriesDrawn ==
    /\ Called /\ err = "ok" /\ Len(PlotCalls) = MaxDatasets
    /\ \A i \in 1..Len(call.datasets) : OwnLabel(i) = ""
    /\ CallsOf("legend") = {}

----------------------------------------------------------------------------
(* The empty string as title or caption, checked under Spec                *)

\* C13 as stated: a title or caption that the caller supplies as '' is
\* stored as '', whatever the header of datasets[0] holds.
C13_Original ==
    Called =>
        /\ call.title = "" => title = ""
        /\ call.caption = "" => caption = ""

\* C13: a title or caption that the caller supplies as '' is replaced like
\* one that is not supplied: the stored value is the 'title' or 'citation'
\* header item of datasets[0], and '' only when the header has no such item.
C13_EmptyStringFallsBackToMetadata ==
    Called =>
        /\ call.title = "" => title = FirstHeaderItem("title")
        /\ call.caption = "" => caption = FirstHeaderItem("citation")

\* C13 witness: a call has supplied '' for the title and for the caption on
\* a first dataset whose header has both items, and both are stored.
C13_Witness ==
    /\ Called
    /\ call.title = "" /\ call.caption = ""
    /\ Truthy(FirstHeaderItem("title")) /\ Truthy(FirstHeaderItem("citation"))
    /\ title = FirstHeaderItem("title") /\ caption = FirstHeaderItem("citation")
====
